---- MODULE Spec2Model ----
(***************************************************************************)
(* Model of app.js (Olympic medal choropleth): the unification of the      *)
(* summer and winter medal tables, the quantile classification of medal    *)
(* totals and the year resolver, with the module-level state of app.js.    *)
(***************************************************************************)
EXTENDS Integers, Sequences, FiniteSets, TLC

VARIABLES
    summerMedals,   \* parsed data/summer_medals.json      (app.js:64)
    winterMedals,   \* parsed data/winter_medals.json      (app.js:65)
    phase,          \* position of init(): "loading", "ready", "error"
    medalData,      \* app.js:4
    currentYear,    \* app.js:5
    quantileBreaks, \* app.js:6
    updateTimer,    \* app.js:7
    olympicYears,   \* app.js:8
    call,           \* the last query made of the core and what it returned
    listeners,      \* which handlers of app.js are registered
    mapLoaded,      \* the map has fired its 'load' event
    layerFill,      \* 'fill-color' of the layer 'country-fills', if added
    pending,        \* ids of the timeouts set and neither cleared nor run
    dom,            \* what the page shows
    hist            \* history of the slider inputs and the updates run

vars == <<summerMedals, winterMedals, phase, medalData, currentYear,
          quantileBreaks, updateTimer, olympicYears, call,
          listeners, mapLoaded, layerFill, pending, dom, hist>>

(***************************************************************************)
(* Bounds of the model.                                                    *)
(***************************************************************************)
\* Most (year, country) entries, plus empty year mappings, in the two
\* season tables together.
MaxEntries == 3
\* Largest medal total a classification query is made with.
MaxCount == 5
\* Most country-years in the large tables the rank selection is run on.
MaxN == 90
\* Most input events of the year slider in one behaviour.
MaxInputs == 3

(***************************************************************************)
(* JavaScript values.  A number is a record tagged "number"; NaN, null and *)
(* undefined are values of their own, so that ===, <= and Math.ceil can    *)
(* treat them as JavaScript does.                                          *)
(***************************************************************************)
Num(n) == [t |-> "number", n |-> n]
NaN == [t |-> "NaN", n |-> 0]
null == [t |-> "null", n |-> 0]
undefined == [t |-> "undefined", n |-> 0]

\* a <= b on the values getColorForMedalCount compares: false as soon as
\* one side is NaN or undefined; null converts to 0.
ToNumber(v) == IF v.t = "null" THEN Num(0) ELSE IF v.t = "number" THEN v ELSE NaN
JSLeq(a, b) ==
    /\ ToNumber(a).t = "number"
    /\ ToNumber(b).t = "number"
    /\ ToNumber(a).n <= ToNumber(b).n

\* Math.ceil: the medal counts of the model are integers, which Math.ceil
\* leaves alone; undefined (a read past the end of an array) becomes NaN.
MathCeil(v) == IF v.t = "number" THEN v ELSE IF v.t = "null" THEN Num(0) ELSE NaN

\* A string-valued property that is absent reads as undefined.
NoName == "<undefined>"

(***************************************************************************)
(* Configuration constants of app.js.                                      *)
(***************************************************************************)
COLOR_PALETTE ==
    [noData |-> "#f0f0f0",
     colors |-> <<"#fff7ec", "#fee8c8", "#fdd49e", "#fdbb84", "#fc8d59",
                  "#ef6548", "#d7301f", "#b30000", "#7f0000">>]

cancelledYears == {1916, 1940, 1944}

(***************************************************************************)
(* The inputs: year keys, country codes and the season entries the two     *)
(* JSON documents are drawn from.                                          *)
(***************************************************************************)
YearKeys == {"1940", "2016"}
Countries == {"US", "DE"}

\* year.toString() and Number(key) on the years of the model
QueryYears == {1916, 1940, 1944, 2016, 2020}
ModelYears ==
    QueryYears \cup {1896, 1900, 1904, 1908, 1912, 1920, 1924, 1928, 1932}
YearToString(y) ==
    CASE y = 1896 -> "1896" [] y = 1900 -> "1900" [] y = 1904 -> "1904"
      [] y = 1908 -> "1908" [] y = 1912 -> "1912" [] y = 1916 -> "1916"
      [] y = 1920 -> "1920" [] y = 1924 -> "1924" [] y = 1928 -> "1928"
      [] y = 1932 -> "1932" [] y = 1940 -> "1940" [] y = 1944 -> "1944"
      [] y = 2016 -> "2016" [] y = 2020 -> "2020"
KeyToNumber(k) == CHOOSE y \in ModelYears : YearToString(y) = k

Entry(g, s, b, h, d) ==
    [gold |-> g, silver |-> s, bronze |-> b, historical |-> h, display_name |-> d]

\* SeasonMedalEntry values: a zero tally, tallies whose three counts differ,
\* both values of the historical flag, with and without a display name.
SeasonEntries ==
    { Entry(0, 0, 0, FALSE, NoName),
      Entry(1, 0, 0, FALSE, "Germany"),
      Entry(2, 1, 0, TRUE, "USSR"),
      Entry(0, 1, 3, TRUE, NoName) }

\* per-year mappings country -> entry, and season tables year -> mapping
YearMappings == UNION { [C -> SeasonEntries] : C \in SUBSET Countries }
SeasonTables == UNION { [Y -> YearMappings] : Y \in SUBSET YearKeys }

RECURSIVE SumOver(_, _)
SumOver(f, S) ==
    IF S = {} THEN 0
    ELSE LET x == CHOOSE x \in S : TRUE IN f[x] + SumOver(f, S \ {x})

\* size of a season table: its entries, an empty year mapping counting one
TableSize(t) ==
    SumOver([y \in DOMAIN t |->
                IF DOMAIN t[y] = {} THEN 1 ELSE Cardinality(DOMAIN t[y])],
            DOMAIN t)

BoundedTables(n) == { t \in SeasonTables : TableSize(t) <= n }

(***************************************************************************)
(* Objects and arrays.  An object is a function from its keys; a missing   *)
(* key reads as absent.  Object.keys / Object.values enumerate the years   *)
(* in ascending order (integer-like keys) and the countries in one fixed   *)
(* order; every result below is sorted or order-independent afterwards.    *)
(* YearKeyOrder and CountryOrder list every key a table of the model uses. *)
(***************************************************************************)
EmptyObject == [k \in {} |-> k]

YearKeyOrder == <<"1896", "1900", "1904", "1908", "1912", "1920", "1924",
                  "1928", "1932", "1940", "2016">>
CountryOrder == <<"US", "DE", "FR", "GB", "IT", "JP", "CN", "RU", "AU", "CA">>
InObject(obj, k) == k \in DOMAIN obj
ObjectKeys(obj, order) == SelectSeq(order, LAMBDA k : k \in DOMAIN obj)
ObjectValues(obj, order) ==
    LET ks == ObjectKeys(obj, order) IN [i \in 1..Len(ks) |-> obj[ks[i]]]

\* arr[i] with a 0-based index: undefined past the end
At(arr, i) == IF i >= 0 /\ i < Len(arr) THEN arr[i + 1] ELSE undefined

\* (a, b) => a - b  is negative: a sorts before b.  NaN - x is NaN, which
\* the sort treats as 0.
NumericLess(a, b) == a.t = "number" /\ b.t = "number" /\ a.n < b.n

\* Array.prototype.sort((a, b) => a - b): a stable ascending sort.  An
\* element goes before another if it is smaller, or if neither is smaller
\* and it came first; its place is one more than the number of elements
\* that go before it.
SortNumeric(s) ==
    LET before(i, j) ==
            \/ NumericLess(s[i], s[j])
            \/ ~NumericLess(s[j], s[i]) /\ i < j
        place == [i \in 1..Len(s) |->
                    Cardinality({ j \in 1..Len(s) : before(j, i) }) + 1]
    IN [k \in 1..Len(s) |-> s[CHOOSE i \in 1..Len(s) : place[i] = k]]

\* [...new Set(arr)]: the first occurrence of each value, in order
\* (KeepAll: the variant that removes nothing)
KeepAll(s) == s
RECURSIVE NewSet(_)
NewSet(s) ==
    IF s = <<>> THEN <<>>
    ELSE LET front == NewSet(SubSeq(s, 1, Len(s) - 1))
             last == s[Len(s)]
         IN IF \E i \in 1..Len(front) : front[i] = last
            THEN front ELSE Append(front, last)

(***************************************************************************)
(* buildUnifiedMedalData (app.js:108-169)                                  *)
(***************************************************************************)
Tally(e) == [gold |-> e.gold, silver |-> e.silver, bronze |-> e.bronze]

\* app.js:131-141
BothSeasonsSumInBreakdown(summer, winter) ==
    [gold |-> summer.gold + winter.gold,
     silver |-> summer.silver + winter.silver,
     bronze |-> summer.bronze + winter.bronze,
     historical |-> summer.historical \/ winter.historical,
     display_name |-> IF summer.display_name # NoName
                      THEN summer.display_name ELSE winter.display_name,
     seasons |-> [summer |-> [gold |-> summer.gold + winter.gold,
                              silver |-> summer.silver + winter.silver,
                              bronze |-> summer.bronze + winter.bronze],
                  winter |-> Tally(winter)]]
BothSeasons(summer, winter) ==
    [gold |-> summer.gold + winter.gold,
     silver |-> summer.silver + winter.silver,
     bronze |-> summer.bronze + winter.bronze,
     historical |-> summer.historical \/ winter.historical,
     display_name |-> IF summer.display_name # NoName
                      THEN summer.display_name ELSE winter.display_name,
     seasons |-> [summer |-> Tally(summer), winter |-> Tally(winter)]]

\* app.js:145-152
OnlySummerUntagged(summer) ==
    [gold |-> summer.gold, silver |-> summer.silver, bronze |-> summer.bronze,
     historical |-> summer.historical, display_name |-> summer.display_name]
OnlySummer(summer) ==
    [gold |-> summer.gold, silver |-> summer.silver, bronze |-> summer.bronze,
     historical |-> summer.historical, display_name |-> summer.display_name,
     season |-> "summer"]

\* app.js:156-163
OnlyWinterTaggedSummer(winter) ==
    [gold |-> winter.gold, silver |-> winter.silver, bronze |-> winter.bronze,
     historical |-> winter.historical, display_name |-> winter.display_name,
     season |-> "summer"]
OnlyWinter(winter) ==
    [gold |-> winter.gold, silver |-> winter.silver, bronze |-> winter.bronze,
     historical |-> winter.historical, display_name |-> winter.display_name,
     season |-> "winter"]

\* app.js:112
AllYearsSummerOnly(summer, winter) == DOMAIN summer
AllYears(summer, winter) == DOMAIN summer \cup DOMAIN winter

\* app.js:115-165, the body of allYears.forEach for one year
UnifiedYear(summer, winter, year) ==
    LET summerData == IF InObject(summer, year) THEN summer[year] ELSE EmptyObject
        winterData == IF InObject(winter, year) THEN winter[year] ELSE EmptyObject
        allCountries == DOMAIN summerData \cup DOMAIN winterData
    IN [isoCode \in allCountries |->
          IF InObject(summerData, isoCode) /\ InObject(winterData, isoCode)
          THEN BothSeasons(summerData[isoCode], winterData[isoCode])
          ELSE IF InObject(summerData, isoCode)
               THEN OnlySummer(summerData[isoCode])
               ELSE OnlyWinter(winterData[isoCode])]

buildUnifiedMedalData(summer, winter) ==
    [year \in AllYears(summer, winter) |-> UnifiedYear(summer, winter, year)]

(***************************************************************************)
(* calculateQuantileBreaks (app.js:172-206)                                *)
(***************************************************************************)
Total(country) == country.gold + country.silver + country.bronze

\* app.js:177-182: the positive totals of one year, in iteration order
YearCounts(yearData) ==
    LET totals == [i \in 1..Len(ObjectKeys(yearData, CountryOrder)) |->
                      Num(Total(ObjectValues(yearData, CountryOrder)[i]))]
    IN SelectSeq(totals, LAMBDA c : c.n > 0)

\* app.js:176-183
RECURSIVE CollectCounts(_, _)
CollectCounts(data, years) ==
    IF years = <<>> THEN <<>>
    ELSE YearCounts(data[Head(years)]) \o CollectCounts(data, Tail(years))

\* app.js:194-201: the rank fractions, in hundredths, and
\* Math.floor(allMedalCounts.length * f).  The product is an IEEE double:
\* where N * f is an integer the rounded product can fall just below it
\* (90 * 0.70 is 62.99999999999999), and the floor is then one less than
\* the exact floor.  DoubleBelow lists every such (N, hundredths) for
\* N < 300; elsewhere in that range the floor is the exact one.
RankPercents == <<15, 35, 55, 70, 82, 91, 96, 99>>
DoubleBelow == { <<90, 70>>, <<150, 82>>, <<170, 70>>, <<180, 35>>, <<180, 70>> }
RankIndex(n, p) ==
    IF <<n, p>> \in DoubleBelow THEN (n * p) \div 100 - 1 ELSE (n * p) \div 100

\* app.js:205
UniqueAscending(picked) == SortNumeric(NewSet(picked))

\* app.js:186-205: from the collected totals to the break set
BreaksFromCounts(counts) ==
    LET sorted == SortNumeric(counts)
        picked == [i \in 1..Len(RankPercents) |->
                      MathCeil(At(sorted, RankIndex(Len(sorted), RankPercents[i])))]
    IN UniqueAscending(picked)

\* app.js:173-183
CollectAll(data) == CollectCounts(data, ObjectKeys(data, YearKeyOrder))

calculateQuantileBreaks(data) == BreaksFromCounts(CollectAll(data))

(***************************************************************************)
(* getOlympicsForYear (app.js:209-237)                                     *)
(***************************************************************************)
Olympics(c, s, w) == [cancelled |-> c, hasSummer |-> s, hasWinter |-> w]

\* (ScanCountriesFirstOnly: the variant that stops after the first country)
ScanCountriesFirstOnly(countries, i, hasSummer, hasWinter) ==
    IF i > Len(countries) THEN Olympics(FALSE, hasSummer, hasWinter)
    ELSE LET country == countries[i] IN
         IF "seasons" \in DOMAIN country
         THEN Olympics(FALSE, TRUE, TRUE)
         ELSE IF "season" \in DOMAIN country /\ country.season = "summer"
              THEN Olympics(FALSE, TRUE, hasWinter)
              ELSE IF "season" \in DOMAIN country /\ country.season = "winter"
                   THEN Olympics(FALSE, hasSummer, TRUE)
                   ELSE Olympics(FALSE, hasSummer, hasWinter)

\* app.js:224-234: the scan of the year's countries, from position i, with
\* its early exit on a seasons breakdown
RECURSIVE ScanCountries(_, _, _, _)
ScanCountries(countries, i, hasSummer, hasWinter) ==
    IF i > Len(countries) THEN Olympics(FALSE, hasSummer, hasWinter)
    ELSE LET country == countries[i] IN
         IF "seasons" \in DOMAIN country
         THEN Olympics(FALSE, TRUE, TRUE)
         ELSE IF "season" \in DOMAIN country /\ country.season = "summer"
              THEN ScanCountries(countries, i + 1, TRUE, hasWinter)
              ELSE IF "season" \in DOMAIN country /\ country.season = "winter"
                   THEN ScanCountries(countries, i + 1, hasSummer, TRUE)
                   ELSE ScanCountries(countries, i + 1, hasSummer, hasWinter)

\* app.js:215-236
LookupYear(data, year) ==
    IF ~InObject(data, YearToString(year))
    THEN Olympics(FALSE, FALSE, FALSE)
    ELSE ScanCountries(ObjectValues(data[YearToString(year)], CountryOrder),
                       1, FALSE, FALSE)

getOlympicsForYearNoCancelCheck(data, year) == LookupYear(data, year)
getOlympicsForYear(data, year) ==
    IF year \in cancelledYears
    THEN Olympics(TRUE, FALSE, FALSE)
    ELSE LookupYear(data, year)

(***************************************************************************)
(* getCurrentMedalData (app.js:240-242)                                    *)
(***************************************************************************)
getCurrentMedalData(data, year) ==
    IF InObject(data, YearToString(year)) THEN data[YearToString(year)]
    ELSE EmptyObject

(***************************************************************************)
(* getColorForMedalCount (app.js:245-257)                                  *)
(***************************************************************************)
\* COLOR_PALETTE.colors[i], 0-based; a read past the end gives undefined
PaletteColor(i) ==
    IF i < Len(COLOR_PALETTE.colors) THEN COLOR_PALETTE.colors[i + 1]
    ELSE "undefined"

\* app.js:250-256: the loop from index i (0-based)
RECURSIVE ScanBreaks(_, _, _)
ScanBreaks(count, breaks, i) ==
    IF i >= Len(breaks)
    THEN PaletteColor(Len(COLOR_PALETTE.colors) - 1)
    ELSE IF JSLeq(count, breaks[i + 1]) THEN PaletteColor(i)
         ELSE ScanBreaks(count, breaks, i + 1)

\* Variants of getColorForMedalCount with one slip each, used to show that
\* the properties below depend on the code: the null test left out, the
\* comparison turned round, the comparison made strict.
getColorNoNullTest(count, breaks) ==
    IF count = Num(0) \/ count = undefined
    THEN COLOR_PALETTE.noData
    ELSE ScanBreaks(count, breaks, 0)

RECURSIVE ScanBreaksGeq(_, _, _)
ScanBreaksGeq(count, breaks, i) ==
    IF i >= Len(breaks)
    THEN PaletteColor(Len(COLOR_PALETTE.colors) - 1)
    ELSE IF JSLeq(breaks[i + 1], count) THEN PaletteColor(i)
         ELSE ScanBreaksGeq(count, breaks, i + 1)
getColorGeq(count, breaks) ==
    IF count = Num(0) \/ count = null \/ count = undefined
    THEN COLOR_PALETTE.noData
    ELSE ScanBreaksGeq(count, breaks, 0)

RECURSIVE ScanBreaksStrict(_, _, _)
ScanBreaksStrict(count, breaks, i) ==
    IF i >= Len(breaks)
    THEN PaletteColor(Len(COLOR_PALETTE.colors) - 1)
    ELSE IF JSLeq(count, breaks[i + 1]) /\ count # breaks[i + 1]
         THEN PaletteColor(i)
         ELSE ScanBreaksStrict(count, breaks, i + 1)
getColorStrict(count, breaks) ==
    IF count = Num(0) \/ count = null \/ count = undefined
    THEN COLOR_PALETTE.noData
    ELSE ScanBreaksStrict(count, breaks, 0)

getColorForMedalCount(count, breaks) ==
    IF count = Num(0) \/ count = null \/ count = undefined
    THEN COLOR_PALETTE.noData
    ELSE ScanBreaks(count, breaks, 0)

(***************************************************************************)
(* The page: what updateMapColors, updateInfoBar, updateLegend and         *)
(* showMedalPopup compute from medalData, currentYear and quantileBreaks.  *)
(***************************************************************************)
\* a page whose 'load' handler is registered as the script loads
LoadHandlerAtStart == [load |-> TRUE, slider |-> FALSE, click |-> FALSE]

\* app.js:37-49, 604: loading the script constructs the map and calls
\* init(); no handler of app.js is registered yet
ListenersAtStart == [load |-> FALSE, slider |-> FALSE, click |-> FALSE]

\* the style has no layer 'country-fills' until app.js:280
NoLayer == [t |-> "absent"]
PlainColor(color) == [t |-> "color", color |-> color]
MatchExpression(cases, default) ==
    [t |-> "match", cases |-> cases, default |-> default]

\* app.js:298-325: the value updateMapColors passes to setPaintProperty
updateMapColors(data, year, breaks) ==
    LET yearData == getCurrentMedalData(data, year)
    IN IF Len(ObjectKeys(yearData, CountryOrder)) = 0
       THEN PlainColor(COLOR_PALETTE.noData)
       ELSE MatchExpression(
                [isoCode \in DOMAIN yearData |->
                    getColorForMedalCount(Num(Total(yearData[isoCode])), breaks)],
                COLOR_PALETTE.noData)

\* app.js:577, 584: textContent = n || '—'
Dash == [t |-> "dash", n |-> 0]
OrDash(n) == IF n = 0 THEN Dash ELSE Num(n)

\* app.js:590-600
YearIcon(olympics) ==
    IF olympics.cancelled THEN "cancelled"
    ELSE IF olympics.hasSummer /\ olympics.hasWinter THEN "summer winter"
    ELSE IF olympics.hasSummer THEN "summer"
    ELSE IF olympics.hasWinter THEN "winter"
    ELSE "summer"

\* app.js:571-601: what updateInfoBar writes
updateInfoBar(data, year) ==
    LET yearData == getCurrentMedalData(data, year)
        olympics == getOlympicsForYear(data, year)
        codes == ObjectKeys(yearData, CountryOrder)
    IN [countryCount |-> OrDash(Len(codes)),
        totalMedals |-> OrDash(SumOver([c \in DOMAIN yearData |->
                                           Total(yearData[c])],
                                       DOMAIN yearData)),
        yearDisplay |-> [icon |-> YearIcon(olympics), year |-> year]]

\* app.js:552-564: Math.max(...allMedalCounts), -Infinity of no count
MinusInfinity == [t |-> "-Infinity", n |-> 0]
updateLegend(data) ==
    LET counts == CollectAll(data)
    IN IF counts = <<>> THEN MinusInfinity
       ELSE CHOOSE m \in {counts[i] : i \in 1..Len(counts)} :
                \A i \in 1..Len(counts) : counts[i].n <= m.n

\* app.js:347-521: the popup showMedalPopup opens for a feature
NoPopup == [kind |-> "none"]
showMedalPopup(data, year, isoCode) ==
    LET yearData == getCurrentMedalData(data, year)
        olympics == getOlympicsForYear(data, year)
    IN IF ~InObject(yearData, isoCode)
       THEN [kind |-> "no medals", country |-> isoCode, year |-> year]
       ELSE IF "seasons" \in DOMAIN yearData[isoCode]
       THEN [kind |-> "seasons", country |-> isoCode, year |-> year]
       ELSE [kind |-> "single", country |-> isoCode, year |-> year,
             seasonLabel |->
                 IF olympics.hasSummer /\ ~olympics.hasWinter THEN "Summer"
                 ELSE IF olympics.hasWinter /\ ~olympics.hasSummer THEN "Winter"
                 ELSE ""]

\* index.html as served: the loading indicator shows, nothing is filled in
PageAtStart ==
    [loading |-> TRUE, error |-> FALSE, info |-> [t |-> "empty"],
     legendMax |-> [t |-> "empty"], popup |-> NoPopup]

\* no slider input made, no debounced update run
NoHistory ==
    [inputs |-> 0, selected |-> 0, mapRuns |-> 0, infoRuns |-> 0,
     firedYear |-> 0, missingLayer |-> FALSE, earlyQuery |-> FALSE]

\* the page, the map and the timers when the script has just been loaded
UIAtStart ==
    /\ listeners = ListenersAtStart
    /\ mapLoaded = FALSE
    /\ layerFill = NoLayer
    /\ pending = {}
    /\ dom = PageAtStart
    /\ hist = NoHistory

uiVars == <<listeners, mapLoaded, layerFill, pending, dom, hist>>

(***************************************************************************)
(* The program: init() and the queries made of the core afterwards.        *)
(***************************************************************************)
NoCall == [fn |-> "none", arg |-> undefined, ret |-> undefined]

\* The counts a classification query is made with
QueryCounts == { Num(n) : n \in (-1)..MaxCount } \cup {null, undefined}

\* app.js:71-72
BuildOlympicYears(data) ==
    LET keys == ObjectKeys(data, YearKeyOrder)
        all == [i \in 1..Len(keys) |-> Num(KeyToNumber(keys[i]))]
                  \o <<Num(1916), Num(1940), Num(1944)>>
        sorted == SortNumeric(NewSet(all))
    IN [i \in 1..Len(sorted) |-> sorted[i].n]

\* app.js:3-8 and the two documents the fetches of init() will deliver
Init ==
    /\ \E n \in 0..MaxEntries :
         /\ summerMedals \in BoundedTables(n)
         /\ winterMedals \in BoundedTables(MaxEntries - n)
    /\ phase = "loading"
    /\ medalData = EmptyObject
    /\ currentYear = 2016
    /\ quantileBreaks = <<>>
    /\ updateTimer = null
    /\ olympicYears = <<>>
    /\ call = NoCall
    /\ UIAtStart

\* app.js:52-98, both responses ok: one run to completion from the parsed
\* documents to setupYearSlider.  It registers the 'load' handler
\* (app.js:81) and the slider's input listener (app.js:534), and its
\* updateInfoBar (app.js:548, 571-573) resolves the current year
init ==
    /\ phase = "loading"
    /\ medalData' = buildUnifiedMedalData(summerMedals, winterMedals)
    /\ olympicYears' = BuildOlympicYears(medalData')
    /\ quantileBreaks' = calculateQuantileBreaks(medalData')
    /\ call' = [fn |-> "getOlympicsForYear", arg |-> Num(currentYear),
                ret |-> getOlympicsForYear(medalData', currentYear)]
    /\ phase' = "ready"
    /\ listeners' = [listeners EXCEPT !.load = TRUE, !.slider = TRUE]
    /\ dom' = [dom EXCEPT !.loading = FALSE,
                          !.info = updateInfoBar(medalData', currentYear)]
    /\ UNCHANGED <<summerMedals, winterMedals, currentYear, updateTimer,
                   mapLoaded, layerFill, pending, hist>>

\* app.js:60-62, 100-104: a response is not ok, init() ends in its catch
initFailed ==
    /\ phase = "loading"
    /\ phase' = "error"
    /\ dom' = [dom EXCEPT !.loading = FALSE, !.error = TRUE]
    /\ UNCHANGED <<summerMedals, winterMedals, medalData, currentYear,
                   quantileBreaks, updateTimer, olympicYears, call,
                   listeners, mapLoaded, layerFill, pending, hist>>

\* a call of getColorForMedalCount(count)
QueryColor ==
    /\ phase = "ready"
    /\ \E count \in QueryCounts :
         call' = [fn |-> "getColorForMedalCount", arg |-> count,
                  ret |-> getColorForMedalCount(count, quantileBreaks)]
    /\ UNCHANGED <<summerMedals, winterMedals, phase, medalData, currentYear,
                   quantileBreaks, updateTimer, olympicYears>>
    /\ UNCHANGED uiVars

\* a call of getOlympicsForYear(year)
QueryOlympics ==
    /\ phase = "ready"
    /\ \E year \in QueryYears :
         call' = [fn |-> "getOlympicsForYear", arg |-> Num(year),
                  ret |-> getOlympicsForYear(medalData, year)]
    /\ UNCHANGED <<summerMedals, winterMedals, phase, medalData, currentYear,
                   quantileBreaks, updateTimer, olympicYears>>
    /\ UNCHANGED uiVars

Next == init \/ initFailed \/ QueryColor \/ QueryOlympics

Spec == Init /\ [][Next]_vars

(***************************************************************************)
(* init() on large tables: summer documents of up to MaxN country-years,   *)
(* which give calculateQuantileBreaks distributions of every length up to  *)
(* MaxN.  Country-year j (from 1) is country (j - 1) % 10 of year          *)
(* (j - 1) \div 10, in the key orders above.                               *)
(***************************************************************************)
\* an entry whose three counts add up to total
EntryOfTotal(total) ==
    Entry(total \div 3, (total + 1) \div 3, (total + 2) \div 3, FALSE, NoName)

CellNumber(year, isoCode) ==
    LET a == CHOOSE a \in 1..Len(YearKeyOrder) : YearKeyOrder[a] = year
        b == CHOOSE b \in 1..Len(CountryOrder) : CountryOrder[b] = isoCode
    IN (a - 1) * Len(CountryOrder) + b

LargeTable(totals) ==
    LET used == { <<y, c>> \in
                     { YearKeyOrder[a] : a \in 1..Len(YearKeyOrder) }
                        \X { CountryOrder[b] : b \in 1..Len(CountryOrder) } :
                     CellNumber(y, c) <= Len(totals) }
    IN [y \in { cell[1] : cell \in used } |->
          [c \in { cell[2] : cell \in { u \in used : u[1] = y } } |->
              EntryOfTotal(totals[CellNumber(y, c)])]]

\* the totals of the large tables: all different and unsorted, with repeated
\* values, with zero totals in between, and the sample distribution
\* 1, 2, 2, 3, 5, 8, 13, 21, 34, 55 out of order
Descending(n) == [j \in 1..n |-> n + 1 - j]
Repeated(n) == [j \in 1..n |-> (j + 1) \div 2]
WithZeros(n) == [j \in 1..n |-> IF j % 3 = 0 THEN 0 ELSE j]
SampleTotals == <<55, 1, 34, 2, 21, 2, 13, 3, 8, 5>>
LargeTotals ==
    UNION { {Descending(n), Repeated(n), WithZeros(n)} : n \in 0..MaxN }
        \cup {SampleTotals}

InitLarge ==
    /\ summerMedals \in { LargeTable(totals) : totals \in LargeTotals }
    /\ winterMedals = EmptyObject
    /\ phase = "loading"
    /\ medalData = EmptyObject
    /\ currentYear = 2016
    /\ quantileBreaks = <<>>
    /\ updateTimer = null
    /\ olympicYears = <<>>
    /\ call = NoCall
    /\ UIAtStart

NextLarge == init \/ initFailed

SpecLarge == InitLarge /\ [][NextLarge]_vars

(***************************************************************************)
(* The page in use: init() and then the events of the browser, each        *)
(* handler one run to completion.  The map fires 'load' once, whether or   *)
(* not init() has registered its handler by then; the slider's timeout     *)
(* expires at any time after the input that set it.                        *)
(***************************************************************************)
\* The documents served: Summer Games of 2016, Winter Games of 1924 or none
UISummerTables ==
    { ("2016" :> ("US" :> Entry(2, 1, 0, TRUE, "USSR")
                    @@ "DE" :> Entry(1, 0, 0, FALSE, "Germany"))) }
UIWinterTables ==
    { EmptyObject,
      ("1924" :> ("US" :> Entry(0, 1, 3, TRUE, NoName))),
      ("2016" :> ("US" :> Entry(0, 1, 3, TRUE, NoName))) }

InitUI ==
    /\ summerMedals \in UISummerTables
    /\ winterMedals \in UIWinterTables
    /\ phase = "loading"
    /\ medalData = EmptyObject
    /\ currentYear = 2016
    /\ quantileBreaks = <<>>
    /\ updateTimer = null
    /\ olympicYears = <<>>
    /\ call = NoCall
    /\ UIAtStart

\* the last query a run of updateInfoBar makes (app.js:573)
InfoBarCall ==
    [fn |-> "getOlympicsForYear", arg |-> Num(currentYear),
     ret |-> getOlympicsForYear(medalData, currentYear)]

\* the last query a run of updateMapColors makes (app.js:299, 315)
MapColorsCall ==
    LET yearData == getCurrentMedalData(medalData, currentYear)
        codes == ObjectKeys(yearData, CountryOrder)
    IN IF codes = <<>>
       THEN [fn |-> "getCurrentMedalData", arg |-> Num(currentYear),
             ret |-> yearData]
       ELSE LET count == Num(Total(yearData[codes[Len(codes)]]))
            IN [fn |-> "getColorForMedalCount", arg |-> count,
                ret |-> getColorForMedalCount(count, quantileBreaks)]

\* a handler queries the core: before medalData and quantileBreaks are
\* built (app.js:68, 75) the query is an early one
Queried(h) == [h EXCEPT !.earlyQuery = @ \/ phase # "ready"]

\* clearTimeout(id): of a pending timeout's id it cancels the timeout, of
\* anything else (null at first) it does nothing
clearTimeout(timers, id) ==
    IF id.t = "number" THEN timers \ {id.n} ELSE timers

\* app.js:534-545: the slider's input listener.  The slider offers the
\* indexes slider.min..slider.max (app.js:529-530); setTimeout returns an
\* id not used before.
sliderInput ==
    /\ listeners.slider
    /\ hist.inputs < MaxInputs
    /\ \E index \in 0..(Len(olympicYears) - 1) :
         /\ currentYear' = olympicYears[index + 1]
         /\ hist' = [hist EXCEPT !.inputs = @ + 1,
                                 !.selected = olympicYears[index + 1],
                                 !.mapRuns = 0, !.infoRuns = 0,
                                 !.firedYear = 0]
    /\ pending' = clearTimeout(pending, updateTimer) \cup {hist.inputs + 1}
    /\ updateTimer' = Num(hist.inputs + 1)
    /\ UNCHANGED <<summerMedals, winterMedals, phase, medalData,
                   quantileBreaks, olympicYears, call, listeners, mapLoaded,
                   layerFill, dom>>

\* map.setPaintProperty('country-fills', ...) (app.js:303, 324) is a call
\* into the map library.  On the layer added by addCountryLayer it sets the
\* paint property.  Without that layer the library either throws (the style
\* has not loaded) or reports an error event and changes nothing.
SetPaintOutcomes(fill) ==
    IF fill = NoLayer THEN {"thrown", "rejected"} ELSE {"painted"}

\* app.js:541-544: the timeout set by the input listener expires and its
\* callback runs updateMapColors, then updateInfoBar.  An exception of
\* updateMapColors ends the callback.
debounceExpires ==
    /\ \E id \in pending : pending' = pending \ {id}
    /\ \E outcome \in SetPaintOutcomes(layerFill) :
         /\ layerFill' =
                IF outcome = "painted"
                THEN updateMapColors(medalData, currentYear, quantileBreaks)
                ELSE layerFill
         /\ dom' =
                IF outcome = "thrown" THEN dom
                ELSE [dom EXCEPT !.info = updateInfoBar(medalData, currentYear)]
         /\ call' = IF outcome = "thrown" THEN MapColorsCall ELSE InfoBarCall
         /\ hist' = [Queried(hist) EXCEPT
                        !.mapRuns = @ + 1,
                        !.infoRuns = IF outcome = "thrown" THEN @ ELSE @ + 1,
                        !.firedYear = currentYear,
                        !.missingLayer = @ \/ layerFill = NoLayer]
    /\ UNCHANGED <<summerMedals, winterMedals, phase, medalData, currentYear,
                   quantileBreaks, updateTimer, olympicYears, listeners,
                   mapLoaded>>

\* The map fires 'load'.  If init() has registered its handler
\* (app.js:81-95) the handler runs: addCountryLayer adds 'country-fills'
\* (app.js:280-291) and calls updateMapColors (app.js:294),
\* setupInteractions registers the click handler (app.js:339) and
\* updateLegend fills the legend in.  A handler registered after the event
\* never runs.
mapLoad ==
    /\ ~mapLoaded
    /\ mapLoaded' = TRUE
    /\ IF listeners.load
       THEN /\ layerFill' =
                   updateMapColors(medalData, currentYear, quantileBreaks)
            /\ listeners' = [listeners EXCEPT !.click = TRUE]
            /\ dom' = [dom EXCEPT !.legendMax = updateLegend(medalData)]
            /\ call' = MapColorsCall
            /\ hist' = Queried(hist)
       ELSE UNCHANGED <<layerFill, listeners, dom, call, hist>>
    /\ UNCHANGED <<summerMedals, winterMedals, phase, medalData, currentYear,
                   quantileBreaks, updateTimer, olympicYears, pending>>

\* app.js:339-343: a click on a feature of 'country-fills'; showMedalPopup
\* queries the current year's data and, for a single breakdown, the
\* Olympics of the year (app.js:349, 469)
mapClick ==
    /\ listeners.click
    /\ \E isoCode \in Countries :
         LET popup == showMedalPopup(medalData, currentYear, isoCode)
         IN /\ dom' = [dom EXCEPT !.popup = popup]
            /\ call' =
                 IF popup.kind = "single" THEN InfoBarCall
                 ELSE [fn |-> "getCurrentMedalData", arg |-> Num(currentYear),
                       ret |-> getCurrentMedalData(medalData, currentYear)]
    /\ hist' = Queried(hist)
    /\ UNCHANGED <<summerMedals, winterMedals, phase, medalData, currentYear,
                   quantileBreaks, updateTimer, olympicYears, listeners,
                   mapLoaded, layerFill, pending>>

NextUI ==
    init \/ initFailed \/ sliderInput \/ debounceExpires \/ mapLoad \/ mapClick

SpecUI == InitUI /\ [][NextUI]_vars

(***************************************************************************)
(* Properties of buildUnifiedMedalData                                     *)
(***************************************************************************)
\* the per-year mapping of a season table, {} when the year is not in it
SeasonYear(table, year) ==
    IF InObject(table, year) THEN table[year] ELSE EmptyObject

UnifiedCells == { <<y, c>> \in YearKeys \X Countries :
                    InObject(medalData, y) /\ InObject(medalData[y], c) }
HasSeasons(e) == "seasons" \in DOMAIN e
HasSeasonTag(e) == "season" \in DOMAIN e

\* C1: the years of the unified table are exactly the union of the years of
\* the two season tables, and for each year its country codes are exactly the
\* union of the country codes of the two seasons' mappings for that year, so
\* no unified entry is without a source entry.
C1_UnifiedKeysAreUnion ==
    phase = "ready" =>
        /\ DOMAIN medalData = DOMAIN summerMedals \cup DOMAIN winterMedals
        /\ \A y \in DOMAIN medalData :
              DOMAIN medalData[y] =
                  DOMAIN SeasonYear(summerMedals, y)
                      \cup DOMAIN SeasonYear(winterMedals, y)

C1_Witness ==
    /\ phase = "ready"
    /\ \E y \in DOMAIN winterMedals : y \notin DOMAIN summerMedals
    /\ \E y \in DOMAIN summerMedals \cap DOMAIN winterMedals :
          \E c \in DOMAIN summerMedals[y] : c \notin DOMAIN winterMedals[y]
    /\ \E y \in DOMAIN medalData : Cardinality(DOMAIN medalData[y]) = 2

\* C2: every unified entry with a seasons breakdown belongs to a country
\* present in both seasons that year; its gold, silver and bronze are the sums
\* of the breakdown's summer and winter counts, and the breakdown holds each
\* source season's own counts.
C2_SeasonsBreakdownSums ==
    phase = "ready" =>
        \A cell \in UnifiedCells :
            LET e == medalData[cell[1]][cell[2]] IN
            HasSeasons(e) =>
                /\ InObject(SeasonYear(summerMedals, cell[1]), cell[2])
                /\ InObject(SeasonYear(winterMedals, cell[1]), cell[2])
                /\ e.gold = e.seasons.summer.gold + e.seasons.winter.gold
                /\ e.silver = e.seasons.summer.silver + e.seasons.winter.silver
                /\ e.bronze = e.seasons.summer.bronze + e.seasons.winter.bronze
                /\ e.seasons.summer = Tally(summerMedals[cell[1]][cell[2]])
                /\ e.seasons.winter = Tally(winterMedals[cell[1]][cell[2]])

C2_Witness ==
    /\ phase = "ready"
    /\ \E cell \in UnifiedCells :
          LET e == medalData[cell[1]][cell[2]] IN
          /\ HasSeasons(e)
          /\ e.seasons.summer.gold > 0
          /\ e.seasons.winter.bronze > 0
          /\ e.seasons.summer # e.seasons.winter

\* C3: for every (year, country) present in exactly one season table the
\* unified entry copies that season's gold, silver, bronze, historical flag and
\* display name and is tagged with the season that supplied it.
C3_SingleSeasonCopied ==
    phase = "ready" =>
        \A y \in YearKeys, c \in Countries :
            LET inSummer == InObject(SeasonYear(summerMedals, y), c)
                inWinter == InObject(SeasonYear(winterMedals, y), c)
                src == IF inSummer THEN summerMedals[y][c] ELSE winterMedals[y][c]
            IN (inSummer # inWinter) =>
                /\ <<y, c>> \in UnifiedCells
                /\ LET e == medalData[y][c] IN
                   /\ e.gold = src.gold
                   /\ e.silver = src.silver
                   /\ e.bronze = src.bronze
                   /\ e.historical = src.historical
                   /\ e.display_name = src.display_name
                   /\ HasSeasonTag(e)
                   /\ e.season = (IF inSummer THEN "summer" ELSE "winter")

C3_Witness ==
    /\ phase = "ready"
    /\ \E cell \in UnifiedCells :
          /\ ~InObject(SeasonYear(winterMedals, cell[1]), cell[2])
          /\ medalData[cell[1]][cell[2]].historical
          /\ medalData[cell[1]][cell[2]].display_name # NoName
    /\ \E cell \in UnifiedCells :
          /\ ~InObject(SeasonYear(summerMedals, cell[1]), cell[2])
          /\ medalData[cell[1]][cell[2]].bronze > 0

\* C4: every entry of the unified table carries either a seasons breakdown or
\* a season tag 'summer' or 'winter', never both and never neither.
C4_ExactlyOneShape ==
    phase = "ready" =>
        \A cell \in UnifiedCells :
            LET e == medalData[cell[1]][cell[2]] IN
            /\ HasSeasons(e) # HasSeasonTag(e)
            /\ HasSeasonTag(e) => e.season \in {"summer", "winter"}

C4_Witness ==
    /\ phase = "ready"
    /\ \E cell \in UnifiedCells : HasSeasons(medalData[cell[1]][cell[2]])
    /\ \E cell \in UnifiedCells : HasSeasonTag(medalData[cell[1]][cell[2]])

(***************************************************************************)
(* Properties of calculateQuantileBreaks and getColorForMedalCount         *)
(***************************************************************************)
\* some country-year of the unified table has a positive medal total
HasPositiveTotal ==
    \E cell \in UnifiedCells : Total(medalData[cell[1]][cell[2]]) > 0

\* 0-based position of a palette color
PaletteIndex(color) ==
    CHOOSE i \in 0..(Len(COLOR_PALETTE.colors) - 1) : PaletteColor(i) = color

ColorQuery == call.fn = "getColorForMedalCount"
PositiveQuery == ColorQuery /\ call.arg.t = "number" /\ call.arg.n > 0

\* C5: after calculateQuantileBreaks on a unified table with at least one
\* positive medal total, quantileBreaks holds at most 8 numbers in strictly
\* ascending order.
C5_BreaksStrictlyAscending ==
    (phase = "ready" /\ HasPositiveTotal) =>
        /\ Len(quantileBreaks) <= 8
        /\ \A i \in 1..Len(quantileBreaks) : quantileBreaks[i].t = "number"
        /\ \A i, j \in 1..Len(quantileBreaks) :
              i < j => quantileBreaks[i].n < quantileBreaks[j].n

C5_Witness ==
    /\ phase = "ready"
    /\ HasPositiveTotal
    /\ Len(quantileBreaks) = 3

\* C6: with no positive medal total in the unified table,
\* calculateQuantileBreaks leaves an empty break set and every
\* getColorForMedalCount query returns the 'no data' color.
C6_EmptyDistributionNoData ==
    (phase = "ready" /\ ~HasPositiveTotal) =>
        /\ quantileBreaks = <<>>
        /\ ColorQuery => call.ret = COLOR_PALETTE.noData

\* C7 as stated: getColorForMedalCount returns the 'no data' color for a count
\* of 0, for any negative count and for null or undefined, whatever the break
\* set.  Stated here on the break sets of a distribution that is not empty,
\* which hold numbers only.
C7_NoDataForNonPositive ==
    (ColorQuery /\ HasPositiveTotal
        /\ (call.arg \in {null, undefined} \/ call.arg.n <= 0)) =>
        call.ret = COLOR_PALETTE.noData

\* C7 as amended: getColorForMedalCount returns the 'no data' color for a
\* count of 0 and for null or undefined, whatever the break set.
C7_NoDataForZeroNullUndefined ==
    (ColorQuery /\ call.arg \in {Num(0), null, undefined}) =>
        call.ret = COLOR_PALETTE.noData

C7_Witness ==
    /\ ColorQuery
    /\ call.arg = null
    /\ Len(quantileBreaks) >= 2
    /\ call.ret = COLOR_PALETTE.noData

\* C8: for the break set calculateQuantileBreaks produced and positive totals
\* x <= y, the palette index returned for x is at most the palette index
\* returned for y.
C8_Monotonic ==
    PositiveQuery =>
        \A y \in call.arg.n..(MaxCount + 1) :
            PaletteIndex(call.ret)
                <= PaletteIndex(getColorForMedalCount(Num(y), quantileBreaks))

C8_Witness ==
    /\ PositiveQuery
    /\ Len(quantileBreaks) >= 2
    /\ PaletteIndex(call.ret) = 1
    /\ PaletteIndex(getColorForMedalCount(Num(MaxCount), quantileBreaks)) > 1

\* C9: for a positive total getColorForMedalCount returns the palette color
\* at the first index whose breakpoint is >= the total (a total equal to a
\* breakpoint falls in that breakpoint's bucket); a total above every
\* breakpoint gets the last palette color.
C9_CeilingBucket ==
    PositiveQuery =>
        LET hits == { i \in 1..Len(quantileBreaks) :
                        /\ quantileBreaks[i].t = "number"
                        /\ quantileBreaks[i].n >= call.arg.n }
            exceedsAll == \A i \in 1..Len(quantileBreaks) :
                             /\ quantileBreaks[i].t = "number"
                             /\ quantileBreaks[i].n < call.arg.n
        IN /\ hits # {} =>
                \E i \in hits :
                    /\ \A j \in hits : i <= j
                    /\ call.ret = COLOR_PALETTE.colors[i]
           /\ exceedsAll =>
                call.ret = COLOR_PALETTE.colors[Len(COLOR_PALETTE.colors)]

C9_Witness ==
    /\ PositiveQuery
    /\ Len(quantileBreaks) >= 2
    /\ quantileBreaks[2] = call.arg
    /\ call.ret = COLOR_PALETTE.colors[2]

(***************************************************************************)
(* Properties of getOlympicsForYear                                        *)
(***************************************************************************)
OlympicsQuery == call.fn = "getOlympicsForYear"

\* C10: getOlympicsForYear of 1916, 1940 or 1944 returns cancelled = true,
\* hasSummer = false and hasWinter = false whatever the unified table holds
\* for that year.
C10_CancelledYears ==
    (OlympicsQuery /\ call.arg.n \in {1916, 1940, 1944}) =>
        call.ret = [cancelled |-> TRUE, hasSummer |-> FALSE, hasWinter |-> FALSE]

C10_Witness ==
    /\ OlympicsQuery
    /\ call.arg = Num(1940)
    /\ InObject(medalData, "1940")
    /\ \E c \in DOMAIN medalData["1940"] : HasSeasons(medalData["1940"][c])
    /\ \E c \in DOMAIN medalData["1940"] : HasSeasonTag(medalData["1940"][c])
    /\ call.ret.cancelled

\* C11: for a year outside the cancelled set getOlympicsForYear returns
\* cancelled = false; every flag is false when the year is absent from the
\* unified table; otherwise hasSummer holds exactly when some entry of the
\* year carries a seasons breakdown or the tag 'summer', and hasWinter exactly
\* when some entry carries a seasons breakdown or the tag 'winter'.
C11_FlagsFromEntries ==
    (OlympicsQuery /\ call.arg.n \notin {1916, 1940, 1944}) =>
        LET key == YearToString(call.arg.n)
            entries == IF InObject(medalData, key)
                       THEN { medalData[key][c] : c \in DOMAIN medalData[key] }
                       ELSE {}
            Tagged(e, season) == HasSeasonTag(e) /\ e.season = season
        IN /\ call.ret.cancelled = FALSE
           /\ ~InObject(medalData, key) =>
                 (~call.ret.hasSummer /\ ~call.ret.hasWinter)
           /\ call.ret.hasSummer =
                 (\E e \in entries : HasSeasons(e) \/ Tagged(e, "summer"))
           /\ call.ret.hasWinter =
                 (\E e \in entries : HasSeasons(e) \/ Tagged(e, "winter"))

\* both flags true from the tags of two countries, none with a breakdown
C11_Witness ==
    /\ OlympicsQuery
    /\ call.arg = Num(2016)
    /\ InObject(medalData, "2016")
    /\ \A c \in DOMAIN medalData["2016"] : ~HasSeasons(medalData["2016"][c])
    /\ call.ret.hasSummer
    /\ call.ret.hasWinter

(***************************************************************************)
(* The rank selection of calculateQuantileBreaks                           *)
(***************************************************************************)
AllCells ==
    UNION { { <<y, c>> : c \in DOMAIN medalData[y] } : y \in DOMAIN medalData }
PositiveCells == { cell \in AllCells : Total(medalData[cell[1]][cell[2]]) > 0 }
CellTotal(cell) == Total(medalData[cell[1]][cell[2]])

\* the value at 0-based index k of the positive totals in ascending order:
\* at most k totals are smaller and more than k are not larger
ValueAtRank(k) ==
    CHOOSE v \in { CellTotal(cell) : cell \in PositiveCells } :
        /\ Cardinality({ cell \in PositiveCells : CellTotal(cell) < v }) <= k
        /\ Cardinality({ cell \in PositiveCells : CellTotal(cell) <= v }) > k

\* floor(f * N) for f = p / 100
FloorRank(n, p) == (n * p) \div 100

\* C13: the break set is made of the values at index floor(f * N), f in
\* 0.15, 0.35, 0.55, 0.70, 0.82, 0.91, 0.96, 0.99, of the N positive totals
\* (gold + silver + bronze, zero totals left out) sorted ascending,
\* deduplicated in ascending order; every index is within 0..N-1 for N >= 1;
\* the sample distribution 1,2,2,3,5,8,13,21,34,55 gives index 1, value 2, for
\* the 0.15 fraction.
C13_FloorIndexedRanks ==
    (phase = "ready" /\ PositiveCells # {}) =>
        LET N == Cardinality(PositiveCells)
            indexes == [i \in 1..Len(RankPercents) |-> FloorRank(N, RankPercents[i])]
        IN /\ \A i \in 1..Len(RankPercents) : indexes[i] \in 0..(N - 1)
           /\ \A i \in 1..Len(quantileBreaks) : quantileBreaks[i].t = "number"
           /\ \A i, j \in 1..Len(quantileBreaks) :
                 i < j => quantileBreaks[i].n < quantileBreaks[j].n
           /\ { quantileBreaks[i].n : i \in 1..Len(quantileBreaks) }
                 = { ValueAtRank(indexes[i]) : i \in 1..Len(RankPercents) }
           /\ summerMedals = LargeTable(SampleTotals) =>
                 /\ indexes[1] = 1
                 /\ quantileBreaks[1] = Num(2)

\* C12: the slider's updates are debounced.  The only timeout pending is the
\* one set by the last input (each input cancels the one before and starts
\* its own), so at most one update is pending; while it is pending no update
\* has run since that input; once it has expired, updateMapColors and
\* updateInfoBar have each run once since the last input, with currentYear
\* the year that input selected, and the info bar shows that year.
C12_DebouncedUpdates ==
    /\ Cardinality(pending) <= 1
    /\ pending # {} => /\ pending = {updateTimer.n}
                       /\ updateTimer.n = hist.inputs
                       /\ hist.mapRuns = 0
                       /\ hist.infoRuns = 0
    /\ (hist.inputs > 0 /\ pending = {}) =>
           /\ hist.mapRuns = 1
           /\ hist.infoRuns = 1
           /\ hist.firedYear = hist.selected
           /\ currentYear = hist.selected
           /\ dom.info.yearDisplay.year = hist.selected

\* C14: no handler and no step of init queries the core (getColorForMedalCount,
\* getOlympicsForYear, getCurrentMedalData) before buildUnifiedMedalData and
\* calculateQuantileBreaks have completed, and once they have, medalData and
\* quantileBreaks are not written again.
C14_QueriesAfterBuild ==
    /\ [](~hist.earlyQuery /\ (call # NoCall => phase = "ready"))
    /\ [][phase = "ready" => UNCHANGED <<medalData, quantileBreaks>>]_vars

\* the 'load' handler, the debounced update and the click handler have all
\* queried the built data
C14_Witness ==
    /\ phase = "ready"
    /\ layerFill # NoLayer
    /\ hist.infoRuns = 1
    /\ dom.popup # NoPopup
    /\ call # NoCall

\* C15: updateMapColors is never executed while the layer 'country-fills'
\* has not been added.
C15_LayerBeforeUpdate == ~hist.missingLayer

====
